---------------------------- MODULE Spec2Model ----------------------------
(* A model of the bun-vite-react-hono-supabase starter:                    *)
(*   - the session gate and shell layout of the protected route "/_app",   *)
(*   - the Hono API mount and its route handlers,                          *)
(*   - the DEFAULT_COLUMNS table constraints and the TanStack Query hooks  *)
(*     (list / get-by-id queries, create / update / delete mutations).     *)
(* The three parts share no state; each has its own specification.         *)
EXTENDS Integers, Sequences, FiniteSets, TLC

(***************************************************************************)
(* Bounds of the model.                                                    *)
(***************************************************************************)
MaxNavs == 4
MaxPathLen == 3
MaxVersion == 2
MaxCalls == 3

Null == "null"
Undefined == "undefined"

(***************************************************************************)
(* PART 1 - session gate and shell layout (src/src/routes/_app.tsx)        *)
(***************************************************************************)
VARIABLES
    providerSession,  \* the auth provider's current session: Null or a session
    navStatus,        \* "idle" | "pending" | "redirected" | "rendered"
    navCount,         \* navigations started so far
    sessionResult,    \* what supabase.auth.getSession() resolved with
    context,          \* what beforeLoad returned to descendant routes
    location,         \* the path the router ended on
    outlet,           \* what <Outlet /> of the shell renders
    opened            \* useDisclosure() state of the shell's Burger

gateVars == <<providerSession, navStatus, navCount, sessionResult, context,
              location, outlet, opened>>

Sessions == {"s1", "s2"}
AuthErrors == {"AuthError1", "AuthError2"}

LoginPath == "/login"
DashboardPath == "/_app/dashboard"

NoResult == [data |-> [session |-> Undefined], error |-> Undefined]
NoContext == [session |-> Undefined]

\* The values supabase.auth.getSession() resolves with: an error with a null
\* session, or no error with the provider's current session (null when signed
\* out).
GetSessionResults(current) ==
    {[data |-> [session |-> Null], error |-> e] : e \in AuthErrors}
        \cup {[data |-> [session |-> current], error |-> Null]}

\* if (error) throw redirect({ to: "/login" }); return data;
BeforeLoadNeverRedirects(res) ==
    [kind |-> "return", to |-> "", data |-> res.data]

BeforeLoadDropsData(res) ==
    IF res.error # Null
        THEN [kind |-> "redirect", to |-> LoginPath, data |-> NoContext]
        ELSE [kind |-> "return", to |-> "", data |-> [session |-> Null]]

BeforeLoad(res) ==
    IF res.error # Null
        THEN [kind |-> "redirect", to |-> LoginPath, data |-> NoContext]
        ELSE [kind |-> "return", to |-> "", data |-> res.data]

\* The dashboard child route's component output.
RouteComponent == "Hello \"/app/_app/dashboard\"!"

\* AppLayoutComponent: header, navbar (collapsed on mobile unless opened) and
\* the content region holding the Outlet.
AppLayoutComponent(isOpened, child) ==
    [header |-> "Logo", navbar |-> "Navbar", collapsedMobile |-> ~isOpened,
     main |-> child]

NoOutlet == ""

GateInit ==
    /\ providerSession = Null
    /\ navStatus = "idle"
    /\ navCount = 0
    /\ sessionResult = NoResult
    /\ context = NoContext
    /\ location = "/"
    /\ outlet = NoOutlet
    /\ opened = FALSE

\* The external provider signs a user in or out.
SignIn(s) ==
    /\ providerSession' = s
    /\ UNCHANGED <<navStatus, navCount, sessionResult, context, location,
                   outlet, opened>>

SignOut ==
    /\ providerSession # Null
    /\ providerSession' = Null
    /\ UNCHANGED <<navStatus, navCount, sessionResult, context, location,
                   outlet, opened>>

\* A navigation to the dashboard starts: the router matches "/_app" and calls
\* its beforeLoad, which awaits getSession().
Navigate ==
    /\ navStatus # "pending"
    /\ navCount < MaxNavs
    /\ navCount' = navCount + 1
    /\ navStatus' = "pending"
    /\ sessionResult' = NoResult
    /\ context' = NoContext
    /\ outlet' = NoOutlet
    /\ opened' = FALSE
    /\ UNCHANGED <<providerSession, location>>

\* getSession() resolves and beforeLoad runs to its end: a thrown redirect
\* moves the router to /login and nothing of the subtree is rendered; a
\* return hands the data to the descendants and the shell mounts with the
\* child route in its Outlet.
BeforeLoadEnds(res) ==
    /\ navStatus = "pending"
    /\ res \in GetSessionResults(providerSession)
    /\ sessionResult' = res
    /\ LET r == BeforeLoad(res) IN
        IF r.kind = "redirect"
            THEN /\ navStatus' = "redirected"
                 /\ location' = r.to
                 /\ context' = NoContext
                 /\ outlet' = NoOutlet
            ELSE /\ navStatus' = "rendered"
                 /\ location' = DashboardPath
                 /\ context' = r.data
                 /\ outlet' = RouteComponent
    /\ opened' = FALSE
    /\ UNCHANGED <<providerSession, navCount>>

\* The Burger's onClick: toggle of useDisclosure().
Toggle ==
    /\ navStatus = "rendered"
    /\ opened' = ~opened
    /\ UNCHANGED <<providerSession, navStatus, navCount, sessionResult,
                   context, location, outlet>>

\* What the protected subtree shows.
ShellRendered == navStatus = "rendered"

(***************************************************************************)
(* PART 2 - the API mount (src/unnamed/part_001, src/src/routes/__root.tsx)*)
(***************************************************************************)
VARIABLES
    lastRequest,      \* the last request handed to a handler
    lastResponse      \* and the response it got

apiVars == <<lastRequest, lastResponse>>

Segments == {"api", "projects", "x"}
Methods == {"GET", "POST"}

RECURSIVE PathsUpTo(_)
PathsUpTo(n) ==
    IF n = 0 THEN {<<>>}
    ELSE LET shorter == PathsUpTo(n - 1) IN
         shorter \cup {Append(p, s) : p \in shorter, s \in Segments}

\* A path is the sequence of its segments: "/" is << >>, "/api/projects" is
\* <<"api", "projects">>.
Paths == PathsUpTo(MaxPathLen)

IsPrefix(p, q) == Len(p) <= Len(q) /\ SubSeq(q, 1, Len(p)) = p

\* new Hono()
NewHono == [basePath |-> <<>>, routes |-> {}]

\* mergePath(base, path)
MergePath(base, path) == base \o path

\* c.text(body): a 200 response with that body.
Text(body) == [status |-> 200, body |-> body]

\* app.get(path, handler): registers the handler for GET at basePath + path.
HonoGetAsPost(app, path, response, owner) ==
    [app EXCEPT !.routes = @ \cup
        {[method |-> "POST", path |-> MergePath(app.basePath, path),
          response |-> response, owner |-> owner,
          mount |-> app.basePath]}]

HonoGet(app, path, response, owner) ==
    [app EXCEPT !.routes = @ \cup
        {[method |-> "GET", path |-> MergePath(app.basePath, path),
          response |-> response, owner |-> owner,
          mount |-> app.basePath]}]

\* app.basePath(path): RETURNS a new instance with the merged base path; the
\* receiver is left as it was.
HonoBasePath(app, path) ==
    [app EXCEPT !.basePath = MergePath(app.basePath, path)]

\* app.route(path, sub): registers every route of sub under basePath + path.
HonoRoute(app, path, sub) ==
    LET at == MergePath(app.basePath, path) IN
    [app EXCEPT !.routes = @ \cup
        {[r EXCEPT !.path = MergePath(at, r.path), !.mount = at]
            : r \in sub.routes}]

NotFound == [status |-> 404, body |-> "404 Not Found"]

\* app.fetch / app.request: the response of the route that matches the
\* method and the path, or the framework's 404.
HonoFetch(app, method, path) ==
    LET hit == {r \in app.routes : r.method = method /\ r.path = path} IN
    IF hit = {} THEN NotFound ELSE (CHOOSE r \in hit : TRUE).response

\* The sub-router a request is forwarded to: the owner of a mount whose
\* prefix the path lies under ("none" when there is none).
ForwardedTo(app, path) ==
    LET under == {r \in app.routes : r.owner # "self" /\ IsPrefix(r.mount, path)} IN
    IF under = {} THEN "none" ELSE (CHOOSE r \in under : TRUE).owner

\* server/routes/projects.ts (its test is src/unnamed/part_002:11-20).
projects == HonoGet(NewHono, <<>>, Text("Hello World"), "projects")

\* const api = new Hono(); api.basePath("/api"); api.route("/projects", ...)
\* The instance api.basePath("/api") returns is discarded: api itself keeps
\* its empty base path.
apiWithBasePath == HonoBasePath(NewHono, <<"api">>)

api == HonoRoute(NewHono, <<"projects">>, projects)

\* const app = new Hono(); app.get("/", (c) => c.text("Hello Bun!"));
app == HonoGet(NewHono, <<>>, Text("Hello Bun!"), "self")

Handlers == {"api", "app", "projects"}

HandlerApp(h) ==
    CASE h = "api" -> api
      [] h = "app" -> app
      [] h = "projects" -> projects

NoRequest == [handler |-> "none", method |-> "GET", path |-> <<>>]
NoResponse == [status |-> 0, body |-> "", forwardedTo |-> "none"]

ApiInit ==
    /\ lastRequest = NoRequest
    /\ lastResponse = NoResponse

\* A request reaches the exported fetch of a handler (or, for the projects
\* router, its request() as in the test).
Request(h, method, path) ==
    /\ lastRequest' = [handler |-> h, method |-> method, path |-> path]
    /\ lastResponse' =
        LET res == HonoFetch(HandlerApp(h), method, path) IN
        [status |-> res.status, body |-> res.body,
         forwardedTo |-> ForwardedTo(HandlerApp(h), path)]

(***************************************************************************)
(* PART 3 - the projects table (DEFAULT_COLUMNS, src/unnamed/part_002:3-7)  *)
(* and the TanStack Query hooks (src/.cursor/rules/client-tanstack-hooks)   *)
(***************************************************************************)
VARIABLES
    rows,         \* the projects table of the backing store
    version,      \* number of statements that changed the table so far
    cache,        \* the query cache: query key -> entry
    fetching,     \* the fetch in flight of each query
    mutations,    \* the mutations in flight, answered by the remote
    nCalls,       \* remote calls (of a queryFn or a mutationFn) made so far
    acked,        \* highest table version a resolved mutation committed (ghost)
    lastError     \* the last error a hook threw to its caller (ghost)

dataVars == <<rows, version, cache, fetching, mutations, nCalls, acked,
              lastError>>

vars == <<gateVars, apiVars, dataVars>>

Ids == {"u1", "u2"}
Names == {"a", "b"}
Omitted == "omitted"

\* Errors of the remote call that do not depend on the table (network,
\* permission), and the ones PostgreSQL / PostgREST report.
RemoteErrors == {"FetchError"}
NotNullViolation == "23502"
UniqueViolation == "23505"
NoSingleRow == "PGRST116"

Stamp(n) == "t" \o ToString(n)

\* DEFAULT_COLUMNS: id uuid NOT NULL PRIMARY KEY (no default),
\* created_at / updated_at timestamp NOT NULL DEFAULT now().
\* The value a column gets from an insert: the default when it is omitted.
IdColumn(given) == IF given = Omitted THEN Null ELSE given

TimestampColumn(given, clock) == IF given = Omitted THEN Stamp(clock) ELSE given

\* INSERT of one row: [error, rows]. NOT NULL and PRIMARY KEY are checked.
\* The table is a set of rows: rows that agree on every column are one row.
InsertRowUnchecked(table, input, clock) ==
    LET row == [id |-> IdColumn(input.id), name |-> input.name,
                createdAt |-> TimestampColumn(input.createdAt, clock),
                updatedAt |-> TimestampColumn(Omitted, clock)] IN
    [error |-> Null, rows |-> table \cup {row}]

InsertRow(table, input, clock) ==
    LET row == [id |-> IdColumn(input.id), name |-> input.name,
                createdAt |-> TimestampColumn(input.createdAt, clock),
                updatedAt |-> TimestampColumn(Omitted, clock)] IN
    IF row.id = Null \/ row.createdAt = Null \/ row.updatedAt = Null
        THEN [error |-> NotNullViolation, rows |-> table]
    ELSE IF \E r \in table : r.id = row.id
        THEN [error |-> UniqueViolation, rows |-> table]
    ELSE [error |-> Null, rows |-> table \cup {row}]

UpdateRowsOfEveryId(table, id, data) ==
    {IF data.name # Omitted THEN [r EXCEPT !.name = data.name] ELSE r
        : r \in table}

\* UPDATE ... SET <supplied domain fields> WHERE id = id
UpdateRows(table, id, data) ==
    {IF r.id = id /\ data.name # Omitted THEN [r EXCEPT !.name = data.name] ELSE r
        : r \in table}

\* DELETE ... WHERE id = id
DeleteRows(table, id) == {r \in table : r.id # id}

\* .single(): the one row of the result, or an error when there is not
\* exactly one.
Single(result) ==
    IF Cardinality(result) = 1
        THEN [error |-> Null, data |-> result]
        ELSE [error |-> NoSingleRow, data |-> {}]

(***************************************************************************)
(* Query keys and the cache.                                               *)
(***************************************************************************)
ListKey == <<"projects">>
DetailKey(id) == <<"projects", id>>
Keys == {ListKey} \cup {DetailKey(i) : i \in Ids}

\* A cache entry: the data, and whether it is marked invalidated. Ghost
\* fields: ver, the table version the data was read at; overlapped, whether a
\* mutation resolved while the fetch that brought the data was in flight.
NoEntry == [has |-> FALSE, data |-> {}, ver |-> 0, overlapped |-> FALSE,
            isInvalidated |-> FALSE]
\* A fetch in flight: its phase and the remote's answer. Ghost fields: ver,
\* the table version the answer was read at; issued, the value of acked when
\* the queryFn was called; since, the value of acked when the last read that
\* waits for the fetch started.
Idle == [phase |-> "idle", data |-> {}, error |-> Null, ver |-> 0,
         issued |-> 0, since |-> 0]

\* Query filters match by key prefix unless exact is asked for.
MatchesExact(queryKey, key) == queryKey = key

Matches(queryKey, key) == IsPrefix(queryKey, key)

\* The query keys each mutation hook's onSuccess hands to
\* queryClient.invalidateQueries.
OnSuccessFilters(kind, dataId) ==
    CASE kind = "create" -> {ListKey}
      [] kind = "update" -> {ListKey, DetailKey(dataId)}
      [] kind = "delete" -> {ListKey}

MatchedKeys(filters) == {k \in Keys : \E f \in filters : Matches(f, k)}

InvalidateQueriesMarksNone(c, matched) == c

\* queryClient.invalidateQueries({ queryKey }): every cached query the key
\* matches is marked invalidated.
InvalidateQueries(c, matched) ==
    [k \in Keys |->
        IF k \in matched /\ c[k].has
            THEN [c[k] EXCEPT !.isInvalidated = TRUE]
            ELSE c[k]]

OnSuccessNoInvalidation(kind, c, dataId) == c

OnSuccess(kind, c, dataId) ==
    InvalidateQueries(c, MatchedKeys(OnSuccessFilters(kind, dataId)))

\* if (error) throw error; return data
SettleNeverThrows(resp) == [threw |-> FALSE, error |-> Null, data |-> resp.data]

Settle(resp) ==
    IF resp.error # Null
        THEN [threw |-> TRUE, error |-> resp.error, data |-> {}]
        ELSE [threw |-> FALSE, error |-> Null, data |-> resp.data]

\* queryFn of projectsQueryOptions.all() / .byId(id): what the remote call
\* answers on the table as it is.
SelectAll(table) == [error |-> Null, data |-> table]

SelectById(table, id) == Single({r \in table : r.id = id})

QueryAnswer(table, key) ==
    IF key = ListKey THEN SelectAll(table) ELSE SelectById(table, key[2])

\* mutationFn of useCreateProject / useUpdateProject / useDeleteProject: what
\* the remote call does to the table and answers.
CreateAnswer(table, name, clock) ==
    LET res == InsertRow(table, [id |-> Omitted, name |-> name,
                                 createdAt |-> Omitted], clock)
        new == res.rows \ table
    IN  [error |-> res.error, rows |-> res.rows,
         dataId |-> IF res.error = Null /\ new # {}
                        THEN (CHOOSE r \in new : TRUE).id ELSE Null]

UpdateAnswer(table, id, name) ==
    LET one == Single({r \in UpdateRows(table, id, [name |-> name]) : r.id = id})
    IN  IF one.error # Null
            THEN [error |-> one.error, rows |-> table, dataId |-> Null]
            ELSE [error |-> Null, rows |-> UpdateRows(table, id, [name |-> name]),
                  dataId |-> (CHOOSE r \in one.data : TRUE).id]

DeleteAnswer(table, id) ==
    [error |-> Null, rows |-> DeleteRows(table, id), dataId |-> id]

MutationAnswer(table, m, clock) ==
    CASE m.kind = "create" -> CreateAnswer(table, m.name, clock)
      [] m.kind = "update" -> UpdateAnswer(table, m.id, m.name)
      [] m.kind = "delete" -> DeleteAnswer(table, m.id)

Max(a, b) == IF a >= b THEN a ELSE b

NoError == [from |-> "none", error |-> Null]

\* The tables the application may find when it starts: any set of rows
\* with distinct ids that earlier inserts left.
InitialTables ==
    {{[id |-> i, name |-> "a", createdAt |-> Stamp(0), updatedAt |-> Stamp(0)]
        : i \in I} : I \in SUBSET Ids}

DataInit(tables) ==
    /\ rows \in tables
    /\ version = 0
    /\ cache = [k \in Keys |-> NoEntry]
    /\ fetching = [k \in Keys |-> Idle]
    /\ mutations = {}
    /\ nCalls = 0
    /\ acked = 0
    /\ lastError = NoError

\* now(): the database clock. It advances with every statement that changes
\* the table.
Now == version

\* Some client of the table inserts a row into it, with or without an id and
\* a created_at of its own; a rejected insert leaves the table as it was.
InsertStatement(input) ==
    /\ version < MaxVersion
    /\ LET res == InsertRow(rows, input, Now) IN
        /\ rows' = res.rows
        /\ version' = IF res.rows # rows THEN version + 1 ELSE version
        /\ lastError' = IF res.error # Null
                            THEN [from |-> "insert", error |-> res.error]
                            ELSE lastError
    /\ UNCHANGED <<cache, fetching, mutations, nCalls, acked>>

\* A read of a query is answered by its cached entry when that entry is not
\* invalidated; such a read changes nothing.
ServedFromCache(k) == cache[k].has /\ ~cache[k].isInvalidated

\* A component or loader reads a query the cache cannot answer: the queryFn
\* is called, unless a fetch of the query is already in flight, which the
\* read then waits for.
StartRead(k) ==
    /\ ~ServedFromCache(k)
    /\ IF fetching[k].phase = "idle"
         THEN /\ nCalls < MaxCalls
              /\ nCalls' = nCalls + 1
              /\ fetching' = [fetching EXCEPT ![k] =
                    [Idle EXCEPT !.phase = "sent", !.issued = acked,
                                 !.since = acked]]
         ELSE /\ fetching[k].since # acked
              /\ fetching' = [fetching EXCEPT ![k].since = acked]
              /\ UNCHANGED nCalls
    /\ UNCHANGED <<rows, version, cache, mutations, acked, lastError>>

\* The remote call of a queryFn is answered: by an error of the call itself,
\* or by the select on the table as it is now.
ServerSelect(k, e) ==
    /\ fetching[k].phase = "sent"
    /\ LET ans == IF e = Null THEN QueryAnswer(rows, k)
                  ELSE [error |-> e, data |-> {}] IN
        fetching' = [fetching EXCEPT ![k] =
            [@ EXCEPT !.phase = "answered", !.data = ans.data,
                      !.error = ans.error, !.ver = version]]
    /\ UNCHANGED <<rows, version, cache, mutations, nCalls, acked, lastError>>

\* The queryFn resumes with the answer: it throws the error, or returns the
\* data, which the query cache stores as the query's fresh data.
DeliverFetch(k) ==
    /\ fetching[k].phase = "answered"
    /\ fetching' = [fetching EXCEPT ![k] = Idle]
    /\ LET f == fetching[k]
           s == Settle([error |-> f.error, data |-> f.data]) IN
        IF s.threw
            THEN /\ lastError' = [from |-> "query", error |-> s.error]
                 /\ UNCHANGED cache
            ELSE /\ cache' = [cache EXCEPT ![k] =
                        [has |-> TRUE, data |-> s.data, ver |-> f.ver,
                         overlapped |-> f.issued < acked,
                         isInvalidated |-> FALSE]]
                 /\ UNCHANGED lastError
    /\ UNCHANGED <<rows, version, mutations, nCalls, acked>>

\* mutate(...) of one of the three mutation hooks is called and its remote
\* call is answered: by an error of the call itself, or by the statement's
\* effect on the table. The answer is then on its way to the mutationFn.
Mutate(call, e) ==
    /\ nCalls < MaxCalls
    /\ nCalls' = nCalls + 1
    /\ LET ans == IF e = Null THEN MutationAnswer(rows, call, Now)
                  ELSE [error |-> e, rows |-> rows, dataId |-> Null]
           v == IF ans.rows # rows THEN version + 1 ELSE version
       IN /\ rows' = ans.rows
          /\ version' = v
          /\ mutations' = mutations \cup
                {[kind |-> call.kind, error |-> ans.error,
                  dataId |-> ans.dataId, cver |-> v]}
    /\ UNCHANGED <<cache, fetching, acked, lastError>>

\* invalidateQueries also refetches the matched queries that have an
\* observer (active): a fetch in flight of a query that has data is
\* cancelled and issued again, one of a query without data is left running.
Refetched(f, c, matched, active) ==
    {k \in matched \cap active : f[k].phase = "idle" \/ c[k].has}

Refetch(f, c, matched, active, at) ==
    [k \in Keys |->
        IF k \in Refetched(f, c, matched, active)
            THEN [Idle EXCEPT !.phase = "sent", !.issued = at,
                              !.since = Max(f[k].since, at)]
            ELSE f[k]]

\* The mutationFn resumes with the answer: it throws the error, or returns,
\* and then onSuccess runs. The queries that have an observer at that moment
\* are any subset of the keys.
DeliverMutation(m, active) ==
    /\ m \in mutations
    /\ mutations' = mutations \ {m}
    /\ LET s == Settle([error |-> m.error, data |-> m.dataId]) IN
        IF s.threw
            THEN /\ active = {}
                 /\ lastError' = [from |-> "mutation", error |-> s.error]
                 /\ UNCHANGED <<cache, fetching, nCalls, acked>>
            ELSE LET matched == MatchedKeys(OnSuccessFilters(m.kind, s.data))
                     again == Refetched(fetching, cache, matched, active) IN
                 /\ active \subseteq matched
                 /\ nCalls + Cardinality(again) <= MaxCalls
                 /\ nCalls' = nCalls + Cardinality(again)
                 /\ cache' = OnSuccess(m.kind, cache, s.data)
                 /\ acked' = Max(acked, m.cver)
                 /\ fetching' = Refetch(fetching, cache, matched, active,
                                        Max(acked, m.cver))
                 /\ UNCHANGED lastError
    /\ UNCHANGED <<rows, version>>

InsertInputs ==
    [id : Ids \cup {Null, Omitted}, name : Names, createdAt : {Omitted, Null}]

\* The arguments the three mutation hooks take: ProjectCreateInput,
\* { id, data: ProjectUpdateInput } and an id.
MutationCalls ==
    [kind : {"create"}, id : {Null}, name : Names]
        \cup [kind : {"update"}, id : Ids, name : Names \cup {Omitted}]
        \cup [kind : {"delete"}, id : Ids, name : {Omitted}]

Init == GateInit /\ ApiInit /\ DataInit(InitialTables)

\* The hooks and the query cache over a table that holds any initial rows.
Next ==
    \/ \E k \in Keys : StartRead(k) /\ UNCHANGED <<gateVars, apiVars>>
    \/ \E k \in Keys, e \in RemoteErrors \cup {Null} :
            ServerSelect(k, e) /\ UNCHANGED <<gateVars, apiVars>>
    \/ \E k \in Keys : DeliverFetch(k) /\ UNCHANGED <<gateVars, apiVars>>
    \/ \E call \in MutationCalls, e \in RemoteErrors \cup {Null} :
            Mutate(call, e) /\ UNCHANGED <<gateVars, apiVars>>
    \/ \E m \in mutations, active \in SUBSET Keys :
            DeliverMutation(m, active) /\ UNCHANGED <<gateVars, apiVars>>

Spec == Init /\ [][Next]_vars

\* The table from its creation: the statements that reach it, from the
\* mutation hooks (one at a time, no query observed) and from any other
\* client.
EmptyInit == GateInit /\ ApiInit /\ DataInit({{}})

TableNext ==
    \/ \E input \in InsertInputs : InsertStatement(input) /\ UNCHANGED <<gateVars, apiVars>>
    \/ \E call \in MutationCalls, e \in RemoteErrors \cup {Null} :
            mutations = {} /\ Mutate(call, e) /\ UNCHANGED <<gateVars, apiVars>>
    \/ \E m \in mutations : DeliverMutation(m, {}) /\ UNCHANGED <<gateVars, apiVars>>

TableSpec == EmptyInit /\ [][TableNext]_vars

\* The router of the client.
RouterNext ==
    \/ \E s \in Sessions : SignIn(s) /\ UNCHANGED <<apiVars, dataVars>>
    \/ SignOut /\ UNCHANGED <<apiVars, dataVars>>
    \/ Navigate /\ UNCHANGED <<apiVars, dataVars>>
    \/ \E res \in GetSessionResults(providerSession) :
            BeforeLoadEnds(res) /\ UNCHANGED <<apiVars, dataVars>>
    \/ Toggle /\ UNCHANGED <<apiVars, dataVars>>

GateSpec == EmptyInit /\ [][RouterNext]_vars

\* The server.
ServerNext ==
    \E h \in Handlers, method \in Methods, path \in Paths :
        Request(h, method, path) /\ UNCHANGED <<gateVars, dataVars>>

ApiSpec == EmptyInit /\ [][ServerNext]_vars

(***************************************************************************)
(* The session gate.                                                       *)
(***************************************************************************)
BeforeLoadEnded == navStatus \in {"redirected", "rendered"}

\* C1: whenever beforeLoad has ended on a session lookup that found no
\* session (with or without an error), the navigation was redirected to
\* /login and the shell is not rendered.
C1_NoSessionRedirects ==
    (BeforeLoadEnded /\ sessionResult.data.session = Null)
        => (navStatus = "redirected" /\ location = LoginPath /\ ~ShellRendered)

\* C4: whenever beforeLoad has ended on a session lookup that reported an
\* error, the navigation was redirected to /login, no context was returned
\* and nothing of the protected subtree is rendered.
C4_ErrorRedirects ==
    (BeforeLoadEnded /\ sessionResult.error # Null)
        => /\ navStatus = "redirected"
           /\ location = LoginPath
           /\ context = NoContext
           /\ outlet = NoOutlet
           /\ ~ShellRendered

C4_Witness ==
    /\ navStatus = "redirected"
    /\ sessionResult.error = "AuthError1"
    /\ providerSession = "s1"

\* C5: whenever beforeLoad has ended on a lookup that succeeded with a valid
\* session, there was no redirect, the context of the descendants is exactly
\* the data the provider returned, and the shell renders the child route's
\* output in its content region.
C5_ValidSessionRenders ==
    (BeforeLoadEnded /\ sessionResult.error = Null
        /\ sessionResult.data.session \in Sessions)
        => /\ navStatus = "rendered"
           /\ location = DashboardPath
           /\ context = sessionResult.data
           /\ AppLayoutComponent(opened, outlet).main = RouteComponent

C5_Witness ==
    /\ navStatus = "rendered"
    /\ context = [session |-> "s2"]
    /\ AppLayoutComponent(opened, outlet).collapsedMobile = FALSE

(***************************************************************************)
(* The API mount.                                                          *)
(***************************************************************************)
\* C7: a GET of "/" on the projects route handler is answered with status
\* 200 and the body "Hello World".
C7_ProjectsRootHelloWorld ==
    lastRequest = [handler |-> "projects", method |-> "GET", path |-> <<>>]
        => (lastResponse.status = 200 /\ lastResponse.body = "Hello World")

C7_Witness ==
    /\ lastRequest = [handler |-> "projects", method |-> "GET", path |-> <<>>]
    /\ lastResponse.status = 200

\* C8: api.fetch forwards a request to the projects sub-router exactly when
\* its path lies under /api/projects.
C8_ForwardsUnderApiProjects ==
    lastRequest.handler = "api"
        => (lastResponse.forwardedTo = "projects"
                <=> IsPrefix(<<"api", "projects">>, lastRequest.path))

(***************************************************************************)
(* The hooks and the query cache.                                          *)
(***************************************************************************)
\* The cached queries a successful mutation affects: the list, and for an
\* update or a delete the detail query of the id.
AffectedKeys(m) ==
    {ListKey} \cup (IF m.kind \in {"update", "delete"}
                        THEN {DetailKey(m.dataId)} ELSE {})

\* C2: in every reachable cache, the onSuccess handler of a create, update or
\* delete marks the cached list query invalidated, and that of an update or a
\* delete also the cached detail query of the affected id; and the step in
\* which a mutation resolves successfully leaves exactly those queries marked
\* invalidated, so that no read of them is served from the cache.
C2_SuccessInvalidates ==
    /\ [](\A kind \in {"create", "update", "delete"}, id \in Ids :
            LET m == [kind |-> kind, dataId |-> id] IN
            \A k \in AffectedKeys(m) :
                cache[k].has => OnSuccess(kind, cache, id)[k].isInvalidated)
    /\ [][\A m \in mutations :
            (m \notin mutations' /\ m.error = Null)
              => \A k \in AffectedKeys(m) :
                    cache[k].has => (cache'[k].has /\ cache'[k].isInvalidated)]_vars

C2_Witness ==
    /\ cache[DetailKey("u1")].has
    /\ cache[DetailKey("u1")].isInvalidated
    /\ ~ServedFromCache(DetailKey("u1"))
    /\ \A r \in rows : r.id # "u1"
    /\ mutations = {}

C9_CreateWithoutIdSucceeds ==
    \A m \in mutations :
        (m.kind = "create" /\ m.error \notin RemoteErrors)
            => (m.error = Null /\ m.dataId \in Ids)

\* C10: every row of the table has a non-null id that no other row has and a
\* non-null createdAt, and an insert that would break this is rejected and
\* changes nothing.
C10_RowsHaveUniqueIdAndCreatedAt ==
    /\ \A r \in rows :
        /\ r.id \in Ids
        /\ r.createdAt # Null
        /\ \A q \in rows : q.id = r.id => q = r
    /\ \A input \in InsertInputs :
        (input.id \notin Ids \/ input.createdAt = Null
            \/ \E r \in rows : r.id = input.id)
          => /\ InsertRow(rows, input, Now).error # Null
             /\ InsertRow(rows, input, Now).rows = rows

C10_Witness ==
    /\ Cardinality(rows) = 2
    /\ lastError = [from |-> "insert", error |-> UniqueViolation]

\* The update calls the hook's types allow: an id and any subset of the
\* domain fields.
UpdateCalls == {call \in MutationCalls : call.kind = "update"}

\* C11: id and createdAt are immutable and an update touches only what it
\* names. In every table the program reaches, an update of any id with any
\* supplied fields leaves every other record as it is and changes, of the
\* record it names, only the supplied domain fields; and over every step a
\* record either stays in the table with the id and the createdAt it had, or
\* is the record a delete names, while a step that is not a successful update
\* changes no record that stays.
C11_IdAndCreatedAtImmutable ==
    /\ [](\A call \in UpdateCalls :
            LET ans == UpdateAnswer(rows, call.id, call.name) IN
            /\ Cardinality(ans.rows) = Cardinality(rows)
            /\ \A r \in rows :
                IF r.id # call.id \/ call.name = Omitted \/ ans.error # Null
                    THEN r \in ans.rows
                    ELSE [r EXCEPT !.name = call.name] \in ans.rows)
    /\ [][\A r \in rows :
            \/ /\ \E q \in rows' : q.id = r.id /\ q.createdAt = r.createdAt
               /\ \/ r \in rows'
                  \/ \E m \in mutations' \ mutations :
                        m.kind = "update" /\ m.error = Null /\ m.dataId = r.id
            \/ /\ \A q \in rows' : q.id # r.id
               /\ \E m \in mutations' \ mutations :
                    m.kind = "delete" /\ m.error = Null /\ m.dataId = r.id]_vars

\* Two records were inserted and a third statement, a successful update,
\* changed one of them, which still has the createdAt of its insert.
C11_Witness ==
    /\ Cardinality(rows) = 2
    /\ version = 3
    /\ \E m \in mutations :
        /\ m.kind = "update" /\ m.error = Null /\ m.cver = version
        /\ \E r \in rows :
            r.id = m.dataId /\ r.name = "b" /\ r.createdAt = Stamp(0)

(***************************************************************************)
(* The cache once nothing is in flight.                                    *)
(***************************************************************************)
\* No mutationFn and no queryFn is waiting for its remote call or holding
\* its answer.
NothingInFlight ==
    /\ mutations = {}
    /\ \A k \in Keys : fetching[k].phase = "idle"

\* C12 as stated: once nothing is in flight, a list entry the cache marks
\* fresh is the table's current content, however fetches and mutations
\* overlapped before.
C12_SettledListMatchesStore ==
    (NothingInFlight /\ ServedFromCache(ListKey))
        => cache[ListKey].data = rows

\* C12 amended: once nothing is in flight, a list entry the cache marks
\* fresh is the table's current content, unless the fetch that brought it
\* was in flight when a mutation resolved.
C12_SettledListOfLaterFetchMatchesStore ==
    (NothingInFlight /\ ServedFromCache(ListKey)
        /\ ~cache[ListKey].overlapped)
        => cache[ListKey].data = rows

\* A mutation changed the table and resolved, three remote calls were made,
\* nothing is in flight any more, and the list entry, brought by a fetch
\* issued after the mutation resolved, is fresh.
C12_Witness ==
    /\ NothingInFlight
    /\ ServedFromCache(ListKey)
    /\ ~cache[ListKey].overlapped
    /\ acked >= 1
    /\ cache[ListKey].ver = acked
    /\ nCalls = 3
    /\ \A i \in Ids : ~cache[DetailKey(i)].has

=============================================================================
